---- MODULE Spec2Model ----
(***************************************************************************)
(* Model of the BULK-GPT Modal processor (src/modal-processor/main.py):    *)
(* the batch orchestrator _process_batch_internal, the per-row Modal       *)
(* function process_row / _process_single_row, and the two store tables    *)
(* (batches, batch_results) they write.                                    *)
(*                                                                         *)
(* Python positions are 0-based; TLA+ sequences are 1-based.  The row at   *)
(* position p of `rows` has row_index p - 1.                               *)
(***************************************************************************)
EXTENDS Integers, Sequences, FiniteSets, TLC

\* Largest number of rows in a submitted batch.
MaxRows == 2

\* Longest elapsed wall time of a run, in whole seconds; a run takes this
\* long or, rounded, no time at all.
MaxElapsed == 1

\* ------------------------------------------------------------------------
\* Values
\* ------------------------------------------------------------------------

\* The batch identifier of the request body.
batch_id == "b1"

\* Python's None.
None == "None"

\* The value of returned[p] while the invocation has returned nothing.
NoResult == [id |-> None, output |-> None, status |-> None, error |-> None]

\* The value of summary while the orchestrator has returned nothing.
\* The local total_time before line 269 assigns it.
NoTime == -1

NoSummary ==
    [batch_id |-> None, total_rows |-> 0, successful |-> 0, failed |-> 0,
     processing_time_seconds |-> 0, avg_time_per_row |-> 0, status |-> None,
     results |-> <<>>]

\* The value of local[p] before the generation call is classified.
NoLocals == [output |-> None, status |-> None, error_msg |-> None]

\* A column that the row's mapping does not have.
Absent == "<absent>"

\* Values of the optional "id" column.  Two rows may carry the same value.
IdValues == {"custom-1"}

\* An element of the request's "rows" value as enumerate(rows) yields it (a
\* value without a length, as null, has none).  JSON allows any value there:
\* is_mapping = FALSE is an element that is not an object (a string in a
\* list, a character of a string, a key of a JSON object), on which row.get
\* raises AttributeError.
Rows == [is_mapping : {TRUE}, id : IdValues \cup {Absent}]
          \cup [is_mapping : {FALSE}, id : {Absent}]

\* The secrets of "bulk-gpt-env" as os.getenv sees them: TRUE is a non-empty
\* value, FALSE is unset or empty (both falsy for all([...])).
Envs == [GEMINI_API_KEY : BOOLEAN,
         NEXT_PUBLIC_SUPABASE_URL : BOOLEAN,
         SUPABASE_URL : BOOLEAN,
         SUPABASE_SERVICE_ROLE_KEY : BOOLEAN]

\* What model.generate_content does for one call:
\*   "text"   returns a response whose .text is non-empty,
\*   "empty"  returns a response whose .text is "" (or a falsy response),
\*   "raise"  raises.
Responses == {"text", "empty", "raise"}

VARIABLES
    env,            \* environment of the containers (one shared secret)
    rows,           \* the elements of the request's "rows" value, as
                    \* enumerate(rows) yields them: the rows of a list, the
                    \* characters of a string, the keys of a JSON object
    rows_sized,     \* whether len(rows) works on the request's "rows"
                    \* value (a list, a string, a JSON object), or raises
                    \* (null, a number, a boolean)
    total_time,     \* local total_time of the orchestrator, or NoTime
    pc,             \* position of _process_batch_internal
    raised,         \* exception _process_batch_internal raised, or None
    batch,          \* the batches record of batch_id: [status, processed_rows]
    batch_writes,   \* update calls issued on batches, in order: [status, ok]
    batch_results,  \* the batch_results table: a set of records
    rowpc,          \* position of each process_row invocation: idle, queued,
                    \* generate (waits in generate_content), insert (waits
                    \* in execute, the store has not answered), stored (the
                    \* store holds the record, execute still waits), done
                    \* (returned), raised
    row_id,         \* local row_id of each invocation
    response,       \* what generate_content did for each invocation
    local,          \* locals output/status/error_msg of each invocation,
                    \* or NoLocals
    inserted,       \* each invocation's insert: None (not issued), "ok", or
                    \* the error the warning of line 140 prints
    returned,       \* value each invocation returned, or NoResult
    outputs,        \* invocations that returned, in order of completion
    parallel_error, \* which failure the except of line 262 caught, or None
    results,        \* local results of the orchestrator
    summary,        \* the summary the orchestrator returned, or NoSummary
    calls,          \* per invocation, the number of generate_content calls
                    \* and of insert calls it has issued (a call counts
                    \* from the moment it is made, answered or not)
    compile_in,     \* inputs of one prompt compilation, or None
    compile_out     \* the prompts compiled from compile_in, or None

vars == <<env, rows, rows_sized, total_time, pc, raised, batch, batch_writes, batch_results, rowpc,
          row_id, response, local, inserted, returned, outputs,
          parallel_error, results, summary, calls, compile_in, compile_out>>

rowvars == <<rowpc, row_id, response, local, inserted, returned, outputs,
             calls>>

\* The variables of the prompt compilation, which no step of a batch run
\* touches.
compvars == <<compile_in, compile_out>>

orchvars == <<pc, raised, batch_writes, parallel_error, results, summary>>

\* ------------------------------------------------------------------------
\* Pure helpers
\* ------------------------------------------------------------------------

Range(s) == {s[k] : k \in DOMAIN s}

\* f"{batch_id}-row-{row_index}"
SyntheticId(bid, row_index) == bid \o "-row-" \o ToString(row_index)

\* row.get("id", f"{batch_id}-row-{row_index}")
RowId(bid, row, row_index) ==
    IF row.id # Absent THEN row.id ELSE SyntheticId(bid, row_index)

\* os.getenv("NEXT_PUBLIC_SUPABASE_URL") or os.getenv("SUPABASE_URL")
SupabaseUrl(e) == e.NEXT_PUBLIC_SUPABASE_URL \/ e.SUPABASE_URL

\* RowEnvOk without the generation-service key in the list.
RowEnvOkStoreOnly(e) == SupabaseUrl(e) /\ e.SUPABASE_SERVICE_ROLE_KEY

\* all([gemini_api_key, supabase_url, supabase_key]) in process_row
RowEnvOk(e) ==
    e.GEMINI_API_KEY /\ SupabaseUrl(e) /\ e.SUPABASE_SERVICE_ROLE_KEY

\* all([supabase_url, supabase_key]) in _process_batch_internal
BatchEnvOk(e) == SupabaseUrl(e) /\ e.SUPABASE_SERVICE_ROLE_KEY

\* Classify with the except branch of line 120 recording "success".
ClassifyExceptAsSuccess(resp) ==
    IF resp = "raise"
    THEN [output |-> "", status |-> "success", error_msg |-> "generation failed"]
    ELSE [output |-> IF resp = "text" THEN "generated text"
                     ELSE "No response generated",
          status |-> "success",
          error_msg |-> None]

\* Lines 120-123 after an exception raised before line 115: no response;
\* str(api_error) is the text "not generated".
ExceptBeforeCall ==
    [output |-> "", status |-> "error", error_msg |-> "not generated"]

\* Lines 115-123: the response (or the exception) becomes the invocation's
\* locals output, status and error_msg.  str(api_error) is the text
\* "generation failed".
Classify(resp) ==
    IF resp = "raise"
    THEN [output |-> "", status |-> "error", error_msg |-> "generation failed"]
    ELSE [output |-> IF resp = "text" THEN "generated text"
                     ELSE "No response generated",
          status |-> "success",
          error_msg |-> None]

\* ResultRecord with the status column written as a constant.
ResultRecordConstantStatus(bid, rid, row_index, l) ==
    [id |-> rid, batch_id |-> bid, row_index |-> row_index,
     output_data |-> l.output, status |-> "success",
     error_message |-> l.error_msg]

\* Lines 129-137: the dict handed to insert (input_data, the JSON text of the
\* row, is left out: nothing reads it back).
ResultRecord(bid, rid, row_index, l) ==
    [id |-> rid, batch_id |-> bid, row_index |-> row_index,
     output_data |-> l.output, status |-> l.status,
     error_message |-> l.error_msg]

\* Lines 142-147: the dict _process_single_row returns.
ReturnValue(rid, l) ==
    [id |-> rid, output |-> l.output, status |-> l.status, error |-> l.error_msg]

\* Lines 187-192: the dict process_row returns when a secret is missing.
MissingEnvResult(bid, row_index) ==
    [id |-> SyntheticId(bid, row_index), output |-> "", status |-> "error",
     error |-> "Missing required environment variables"]

\* batch_results.id is the table's primary key: an insert of an identifier
\* the table already holds is rejected.
PrimaryKeyFree(table, rid) == \A r \in table : r.id # rid

\* Lines 127-140: what .insert(...).execute() raises: nothing (None) when
\* the store accepts the call (store_ok) and the primary key is free.  The
\* except branch only prints the error in a warning.
InsertError(table, rec, store_ok) ==
    IF ~store_ok THEN "store error"
    ELSE IF ~PrimaryKeyFree(table, rec.id) THEN "duplicate key"
    ELSE None

\* The table after the insert call.
TableAfterInsert(table, rec, store_ok) ==
    IF InsertError(table, rec, store_ok) = None
    THEN table \cup {rec} ELSE table

\* Lines 267-268: sum(1 for r in results if r.get("status") == s)
CountStatus(rs, s) == Cardinality({k \in DOMAIN rs : rs[k].status = s})

\* Line 273
CompletionStatus(error_count) ==
    IF error_count = 0 THEN "completed" ELSE "completed_with_errors"

\* starmap yielding the values in the order the invocations finished.
CompletionOrder(outs) == [p \in 1 .. Len(outs) |-> outs[p].value]

\* starmap with order_outputs left at its default: the values of the
\* invocations in the order of the inputs, whatever order they finished in.
\* `outs` holds [index, value] in order of completion.
OrderOutputs(outs) ==
    [p \in 1 .. Len(outs) |->
        (CHOOSE o \in Range(outs) : o.index = p - 1).value]

\* a / n rounded to the nearest integer (n >= 1; no tie arises for n <= 3
\* and a a multiple of 1000).
RoundDiv(a, n) == (2 * a + n) \div (2 * n)

\* AvgTimePerRow reporting the whole elapsed time for an empty row list.
AvgTimePerRowOfEmptyIsTotal(seconds, rws) ==
    IF Len(rws) > 0 THEN RoundDiv(1000 * seconds, Len(rws))
    ELSE 1000 * seconds

\* Lines 270 and 292: round(total_time / len(rows) if rows else 0, 3), in
\* thousandths of a second; total_time is in whole seconds.
AvgTimePerRow(seconds, rws) ==
    IF Len(rws) > 0 THEN RoundDiv(1000 * seconds, Len(rws)) ELSE 0

\* CompletedUpdate writing the status completed whatever the error count.
CompletedUpdateAlwaysCompleted(completion_status, successful_count) ==
    [status |-> "completed", processed_rows |-> successful_count]

\* Lines 275-281: the columns of the terminal update of batches.
CompletedUpdate(completion_status, successful_count) ==
    [status |-> completion_status, processed_rows |-> successful_count]

\* Lines 286-295.  processing_time_seconds is total_time, a whole number of
\* seconds that round(..., 2) leaves as it is.
Summary(bid, rs, rws, successful_count, error_count, completion_status, seconds) ==
    [batch_id |-> bid, total_rows |-> Len(rws),
     successful |-> successful_count, failed |-> error_count,
     processing_time_seconds |-> seconds,
     avg_time_per_row |-> AvgTimePerRow(seconds, rws),
     status |-> completion_status, results |-> rs]

\* ------------------------------------------------------------------------
\* Initial state: the request has arrived, the batch record was created
\* with status pending, nothing has run.
\* ------------------------------------------------------------------------

Init ==
    /\ env \in Envs
    /\ rows_sized \in BOOLEAN
    /\ total_time = NoTime
    /\ rows \in IF rows_sized
                THEN UNION {[1 .. n -> Rows] : n \in 0 .. MaxRows}
                ELSE {<<>>}
    /\ pc = "invoked"
    /\ raised = None
    /\ batch = [status |-> "pending", processed_rows |-> 0]
    /\ batch_writes = <<>>
    /\ batch_results = {}
    /\ rowpc = [p \in DOMAIN rows |-> "idle"]
    /\ row_id = [p \in DOMAIN rows |-> None]
    /\ response = [p \in DOMAIN rows |-> None]
    /\ local = [p \in DOMAIN rows |-> NoLocals]
    /\ inserted = [p \in DOMAIN rows |-> None]
    /\ returned = [p \in DOMAIN rows |-> NoResult]
    /\ outputs = <<>>
    /\ parallel_error = None
    /\ results = <<>>
    /\ summary = NoSummary
    /\ calls = [p \in DOMAIN rows |-> [generate |-> 0, insert |-> 0]]
    /\ compile_in = None
    /\ compile_out = None

\* ------------------------------------------------------------------------
\* _process_batch_internal
\* ------------------------------------------------------------------------

\* Lines 230-235: a store secret is missing, ValueError.
MissingEnvironment ==
    /\ pc = "invoked"
    /\ ~BatchEnvOk(env)
    /\ pc' = "raised"
    /\ raised' = "ValueError"
    /\ UNCHANGED <<compvars, env, rows, rows_sized, total_time, batch, batch_writes, batch_results, rowvars,
                   parallel_error, results, summary>>

\* Lines 237-241: create_client raises, RuntimeError.
ClientInitFails ==
    /\ pc = "invoked"
    /\ BatchEnvOk(env)
    /\ pc' = "raised"
    /\ raised' = "RuntimeError"
    /\ UNCHANGED <<compvars, env, rows, rows_sized, total_time, batch, batch_writes, batch_results, rowvars,
                   parallel_error, results, summary>>

\* Lines 230-246: the client is created, and len(rows) raises TypeError for
\* a "rows" value that has no length (null, a number, a boolean), before
\* any update.
RowsNotSized ==
    /\ pc = "invoked"
    /\ BatchEnvOk(env)
    /\ ~rows_sized
    /\ pc' = "raised"
    /\ raised' = "TypeError"
    /\ UNCHANGED <<compvars, env, rows, rows_sized, total_time, batch, batch_writes, batch_results, rowvars,
                   parallel_error, results, summary>>

\* Lines 230-254: the client is created, len(rows) works, and the batch is
\* marked processing; a failure of the update is printed and ignored.
MarkProcessing ==
    /\ pc = "invoked"
    /\ BatchEnvOk(env)
    /\ rows_sized
    /\ \E write_ok \in BOOLEAN :
        /\ batch' = IF write_ok THEN [batch EXCEPT !.status = "processing"]
                    ELSE batch
        /\ batch_writes' =
              Append(batch_writes, [status |-> "processing", ok |-> write_ok])
    /\ pc' = "dispatch"
    /\ UNCHANGED <<compvars, env, rows, rows_sized, total_time, raised, batch_results, rowvars,
                   parallel_error, results, summary>>

\* Lines 258-261: starmap submits one process_row input per row.
Starmap ==
    /\ pc = "dispatch"
    /\ rowpc' = [p \in DOMAIN rows |-> "queued"]
    /\ pc' = "waiting"
    /\ UNCHANGED <<compvars, env, rows, rows_sized, total_time, raised, batch, batch_writes,
                   batch_results, row_id, response, local, inserted,
                   returned, outputs, calls, parallel_error, results,
                   summary>>

\* Lines 257-264: the starmap call itself fails before any input runs.
StarmapFails ==
    /\ pc = "dispatch"
    /\ parallel_error' = "dispatch"
    /\ results' = <<>>
    /\ pc' = "aggregate"
    /\ UNCHANGED <<compvars, env, rows, rows_sized, total_time, raised, batch, batch_writes, batch_results,
                   rowvars, summary>>

\* Lines 258-261: every invocation has returned; list(...) holds their
\* values in input order.
StarmapReturns ==
    /\ pc = "waiting"
    /\ \A p \in DOMAIN rows : rowpc[p] = "done"
    /\ results' = OrderOutputs(outputs)
    /\ pc' = "aggregate"
    /\ UNCHANGED <<compvars, env, rows, rows_sized, total_time, raised, batch, batch_writes, batch_results,
                   rowvars, parallel_error, summary>>

\* Lines 257-264: return_exceptions is left at its default, so the
\* exception of an invocation is raised out of the iteration.  The platform
\* may raise it as soon as the failed output arrives or when its turn comes
\* in input order, so the step is enabled from the moment an invocation has
\* raised; the values already yielded are dropped with the unfinished list.
\* The other invocations may still be running.
StarmapRaises ==
    /\ pc = "waiting"
    /\ \E p \in DOMAIN rows : rowpc[p] = "raised"
    /\ parallel_error' = "row"
    /\ results' = <<>>
    /\ pc' = "aggregate"
    /\ UNCHANGED <<compvars, env, rows, rows_sized, total_time, raised, batch, batch_writes, batch_results,
                   rowvars, summary>>

\* Lines 266-283: statistics, then the terminal update is issued and the
\* store applies it or refuses it (a failure is printed and ignored) while
\* the orchestrator waits in execute().
TerminalUpdate ==
    /\ pc = "aggregate"
    /\ LET successful_count == CountStatus(results, "success")
           error_count == CountStatus(results, "error")
           completion_status == CompletionStatus(error_count)
       IN \E write_ok \in BOOLEAN :
              /\ batch' = IF write_ok
                          THEN CompletedUpdate(completion_status,
                                               successful_count)
                          ELSE batch
              /\ batch_writes' =
                    Append(batch_writes,
                           [status |-> completion_status, ok |-> write_ok])
    /\ \E elapsed \in {0, MaxElapsed} : total_time' = elapsed
    /\ pc' = "finalize"
    /\ UNCHANGED <<compvars, env, rows, rows_sized, raised, batch_results,
                   rowvars, parallel_error, results, summary>>

\* Lines 285-302: execute() has answered; the summary is built and returned.
Finalize ==
    /\ pc = "finalize"
    /\ LET successful_count == CountStatus(results, "success")
           error_count == CountStatus(results, "error")
           completion_status == CompletionStatus(error_count)
       IN summary' = Summary(batch_id, results, rows, successful_count,
                             error_count, completion_status, total_time)
    /\ pc' = "returned"
    /\ UNCHANGED <<compvars, env, rows, rows_sized, total_time, raised,
                   batch, batch_writes, batch_results, rowvars,
                   parallel_error, results>>

\* Line 326: process_batch_modal exceeds its timeout while
\* _process_batch_internal waits for the row invocations or for a batch
\* update; the platform ends it with an exception and no summary is
\* returned.  The row invocations go on.
BatchTimeout ==
    /\ pc \in {"dispatch", "waiting", "aggregate", "finalize"}
    /\ pc' = "raised"
    /\ raised' = "FunctionTimeoutError"
    /\ UNCHANGED <<compvars, env, rows, rows_sized, total_time, batch,
                   batch_writes, batch_results, rowvars, parallel_error,
                   results, summary>>

\* ------------------------------------------------------------------------
\* process_row and _process_single_row, one invocation per row position p
\* ------------------------------------------------------------------------

\* Lines 181-192: a secret is missing; the invocation returns an error
\* result without touching the store.
ProcessRowMissingEnv(p) ==
    /\ rowpc[p] = "queued"
    /\ ~RowEnvOk(env)
    /\ returned' = [returned EXCEPT
                      ![p] = MissingEnvResult(batch_id, p - 1)]
    /\ outputs' = Append(outputs, [index |-> p - 1, value |-> returned'[p]])
    /\ rowpc' = [rowpc EXCEPT ![p] = "done"]
    /\ UNCHANGED <<compvars, env, rows, rows_sized, total_time, batch, batch_results, row_id,
                   response, local, inserted, calls, orchvars>>

\* Lines 85-90, outside any try: row.get raises AttributeError when the row
\* is not a mapping, and genai.configure or create_client may raise for any
\* row; the exception leaves process_row.
ProcessRowRaises(p) ==
    /\ rowpc[p] = "queued"
    /\ RowEnvOk(env)
    /\ \E setup_ok \in BOOLEAN : ~(rows[p].is_mapping /\ setup_ok)
    /\ row_id' = [row_id EXCEPT
          ![p] = IF rows[p].is_mapping
                 THEN RowId(batch_id, rows[p], p - 1) ELSE @]
    /\ rowpc' = [rowpc EXCEPT ![p] = "raised"]
    /\ UNCHANGED <<compvars, env, rows, rows_sized, total_time, batch, batch_results,
                   response, local, inserted, returned, outputs, calls,
                   orchvars>>

\* Lines 181-205 and 85-115: secrets present, row_id resolved, clients set up, the
\* prompt compiled and generate_content called; the invocation waits for
\* its answer.
ProcessRow(p) ==
    /\ rowpc[p] = "queued"
    /\ RowEnvOk(env)
    /\ rows[p].is_mapping
    /\ row_id' = [row_id EXCEPT ![p] = RowId(batch_id, rows[p], p - 1)]
    /\ calls' = [calls EXCEPT ![p].generate = @ + 1]
    /\ rowpc' = [rowpc EXCEPT ![p] = "generate"]
    /\ UNCHANGED <<compvars, env, rows, rows_sized, total_time, batch, batch_results,
                   response, local, inserted, returned, outputs, orchvars>>

\* Lines 85-138 when the try of line 92 raises before line 115 (a prompt
\* that is not a string, a schema field that is not a string,
\* GenerativeModel raising): the except of line 120 classifies the row
\* without a generation call, and the insert is issued.
ProcessRowExceptBeforeCall(p) ==
    /\ rowpc[p] = "queued"
    /\ RowEnvOk(env)
    /\ rows[p].is_mapping
    /\ row_id' = [row_id EXCEPT ![p] = RowId(batch_id, rows[p], p - 1)]
    /\ local' = [local EXCEPT ![p] = ExceptBeforeCall]
    /\ calls' = [calls EXCEPT ![p].insert = @ + 1]
    /\ rowpc' = [rowpc EXCEPT ![p] = "insert"]
    /\ UNCHANGED <<compvars, env, rows, rows_sized, total_time, batch, batch_results,
                   response, inserted, returned, outputs, orchvars>>

\* GenerateContent calling generate_content a second time after a call that
\* raised.
GenerateContentRetrying(p) ==
    /\ rowpc[p] = "generate"
    /\ \E resp \in Responses :
        /\ response' = [response EXCEPT ![p] = resp]
        /\ local' = [local EXCEPT ![p] = Classify(resp)]
        /\ IF resp = "raise" /\ calls[p].generate = 1
           THEN /\ calls' = [calls EXCEPT ![p].generate = @ + 1]
                /\ rowpc' = rowpc
           ELSE /\ calls' = [calls EXCEPT ![p].insert = @ + 1]
                /\ rowpc' = [rowpc EXCEPT ![p] = "insert"]
    /\ UNCHANGED <<compvars, env, rows, rows_sized, total_time, batch, batch_results,
                   row_id, inserted, returned, outputs, orchvars>>

\* Lines 115-138: generate_content answers (or raises), the outcome is
\* classified and the insert is issued; the invocation waits in execute().
GenerateContent(p) ==
    /\ rowpc[p] = "generate"
    /\ \E resp \in Responses :
        /\ response' = [response EXCEPT ![p] = resp]
        /\ local' = [local EXCEPT ![p] = Classify(resp)]
    /\ calls' = [calls EXCEPT ![p].insert = @ + 1]
    /\ rowpc' = [rowpc EXCEPT ![p] = "insert"]
    /\ UNCHANGED <<compvars, env, rows, rows_sized, total_time, batch, batch_results,
                   row_id, inserted, returned, outputs, orchvars>>

\* StoreInsert writing the record as an insert-or-update: a record of the
\* same identifier is replaced.
StoreUpsert(p) ==
    /\ rowpc[p] = "insert"
    /\ LET rec == ResultRecord(batch_id, row_id[p], p - 1, local[p])
       IN batch_results' = {r \in batch_results : r.id # rec.id} \cup {rec}
    /\ inserted' = [inserted EXCEPT ![p] = "ok"]
    /\ rowpc' = [rowpc EXCEPT ![p] = "stored"]
    /\ UNCHANGED <<compvars, env, rows, rows_sized, total_time, batch, row_id,
                   response, local, returned, outputs, calls, orchvars>>

\* Line 138, the store's side: the store accepts the insert and holds the
\* record; its answer is on the way to the invocation, which still waits.
StoreInsert(p) ==
    /\ rowpc[p] = "insert"
    /\ LET rec == ResultRecord(batch_id, row_id[p], p - 1, local[p])
       IN /\ InsertError(batch_results, rec, TRUE) = None
          /\ batch_results' = TableAfterInsert(batch_results, rec, TRUE)
    /\ inserted' = [inserted EXCEPT ![p] = "ok"]
    /\ rowpc' = [rowpc EXCEPT ![p] = "stored"]
    /\ UNCHANGED <<compvars, env, rows, rows_sized, total_time, batch, row_id,
                   response, local, returned, outputs, calls, orchvars>>

\* InsertResult without the try of line 127: a failed insert leaves the
\* invocation with the exception.
InsertResultUncaught(p) ==
    /\ \/ /\ rowpc[p] = "stored"
          /\ returned' = [returned EXCEPT
                ![p] = ReturnValue(row_id[p], local[p])]
          /\ outputs' = Append(outputs,
                [index |-> p - 1, value |-> returned'[p]])
          /\ rowpc' = [rowpc EXCEPT ![p] = "done"]
          /\ UNCHANGED inserted
       \/ /\ rowpc[p] = "insert"
          /\ LET rec == ResultRecord(batch_id, row_id[p], p - 1, local[p])
             IN \E store_ok \in BOOLEAN :
                  /\ InsertError(batch_results, rec, store_ok) # None
                  /\ inserted' = [inserted EXCEPT
                        ![p] = InsertError(batch_results, rec, store_ok)]
          /\ rowpc' = [rowpc EXCEPT ![p] = "raised"]
          /\ UNCHANGED <<returned, outputs>>
    /\ UNCHANGED <<compvars, env, rows, rows_sized, total_time, batch, batch_results,
                   row_id, response, local, calls, orchvars>>

\* Lines 138-147: execute() ends and the invocation returns.  Either the
\* answer of the accepted insert arrives, or execute() raises (the store
\* cannot be reached, or it refuses the identifier it already holds) and
\* the except of line 139 prints the error.
InsertResult(p) ==
    /\ \/ /\ rowpc[p] = "stored"
          /\ UNCHANGED inserted
       \/ /\ rowpc[p] = "insert"
          /\ LET rec == ResultRecord(batch_id, row_id[p], p - 1, local[p])
             IN \E store_ok \in BOOLEAN :
                  /\ InsertError(batch_results, rec, store_ok) # None
                  /\ inserted' = [inserted EXCEPT
                        ![p] = InsertError(batch_results, rec, store_ok)]
    /\ returned' = [returned EXCEPT ![p] = ReturnValue(row_id[p], local[p])]
    /\ outputs' = Append(outputs, [index |-> p - 1, value |-> returned'[p]])
    /\ rowpc' = [rowpc EXCEPT ![p] = "done"]
    /\ UNCHANGED <<compvars, env, rows, rows_sized, total_time, batch, batch_results,
                   row_id, response, local, calls, orchvars>>

\* Line 152: the invocation exceeds its timeout while it waits for the
\* answer of generate_content or of execute(); the platform ends it with an
\* exception.  What the store already holds stays.
RowTimeout(p) ==
    /\ rowpc[p] \in {"generate", "insert", "stored"}
    /\ rowpc' = [rowpc EXCEPT ![p] = "raised"]
    /\ UNCHANGED <<compvars, env, rows, rows_sized, total_time, batch, batch_results,
                   row_id, response, local, inserted, returned, outputs,
                   calls, orchvars>>

Next ==
    \/ MissingEnvironment
    \/ ClientInitFails
    \/ RowsNotSized
    \/ MarkProcessing
    \/ Starmap
    \/ StarmapFails
    \/ StarmapReturns
    \/ StarmapRaises
    \/ TerminalUpdate
    \/ Finalize
    \/ BatchTimeout
    \/ \E p \in DOMAIN rows : ProcessRowMissingEnv(p)
    \/ \E p \in DOMAIN rows : ProcessRowRaises(p)
    \/ \E p \in DOMAIN rows : ProcessRow(p)
    \/ \E p \in DOMAIN rows : ProcessRowExceptBeforeCall(p)
    \/ \E p \in DOMAIN rows : GenerateContent(p)
    \/ \E p \in DOMAIN rows : StoreInsert(p)
    \/ \E p \in DOMAIN rows : InsertResult(p)
    \/ \E p \in DOMAIN rows : RowTimeout(p)

Spec == Init /\ [][Next]_vars

\* The run does not stop while a step is possible: _process_batch_internal
\* goes on until it returns, raises or is ended by the timeout of line 326,
\* and every row invocation ends (it returns, raises, or is ended by the
\* timeout of line 152).
\* Every step moves pc or one rowpc, so these two stand for vars in the
\* subscript.
positions == <<pc, rowpc>>

\* The runs checked for progress read the store URL from
\* NEXT_PUBLIC_SUPABASE_URL or have none: SUPABASE_URL is read only as its
\* fallback (SupabaseUrl) and gives the same runs.
FairInit == Init /\ ~env.SUPABASE_URL

FairSpec == FairInit /\ [][Next]_vars /\ WF_positions(Next)

\* ------------------------------------------------------------------------
\* Prompt compilation (lines 93-107).  Strings are sequences of characters.
\* ------------------------------------------------------------------------

\* Largest number of pieces a template is put together from.
MaxPieces == 2

\* f"{{{{{key}}}}}": the key between two opening and two closing braces.
Placeholder(key) == <<"{", "{">> \o key \o <<"}", "}">>

\* str.replace(old, new) for a non-empty old: the occurrences of old are
\* found from left to right without overlap, and each becomes new.
RECURSIVE Replace(_, _, _)
Replace(str, old, new) ==
    IF Len(str) < Len(old) THEN str
    ELSE IF SubSeq(str, 1, Len(old)) = old
         THEN new \o Replace(SubSeq(str, Len(old) + 1, Len(str)), old, new)
         ELSE <<str[1]>> \o Replace(Tail(str), old, new)

\* Lines 95-98: the loop over row.items(), in the order of the dict; an
\* item is <<key, value>>.
RECURSIVE SubstituteItems(_, _)
SubstituteItems(final_prompt, items) ==
    IF items = <<>> THEN final_prompt
    ELSE LET key == items[1][1]
             value == items[1][2]
         IN SubstituteItems(
                IF key # <<"i", "d">> /\ value # <<>>
                THEN Replace(final_prompt, Placeholder(key), value)
                ELSE final_prompt,
                Tail(items))

\* ', '.join(output_schema)
RECURSIVE JoinFields(_)
JoinFields(fields) ==
    IF fields = <<>> THEN <<>>
    ELSE IF Len(fields) = 1 THEN fields[1]
    ELSE fields[1] \o <<",", " ">> \o JoinFields(Tail(fields))

\* Lines 100-102: f"Context: {context}\n\n{final_prompt}" when context is
\* not empty.
AddContext(final_prompt, context) ==
    IF context # <<>>
    THEN <<"C", "o", "n", "t", "e", "x", "t", ":", " ">> \o context
           \o <<"\n", "\n">> \o final_prompt
    ELSE final_prompt

\* Lines 104-107: the schema hint appended when output_schema is not empty.
AddSchemaHint(final_prompt, output_schema) ==
    IF output_schema # <<>>
    THEN final_prompt \o <<"\n", "\n">>
           \o <<"E", "x", "p", "e", "c", "t", "e", "d",
                 " ", "o", "u", "t", "p", "u", "t", " ",
                 "f", "o", "r", "m", "a", "t", ":", " ">>
           \o JoinFields(output_schema)
    ELSE final_prompt

\* Lines 93-107: final_prompt as handed to generate_content.
CompilePrompt(prompt, items, context, output_schema) ==
    AddSchemaHint(AddContext(SubstituteItems(prompt, items), context),
                  output_schema)

\* Column names, values, templates, contexts and schemas of the compiled
\* requests.  A value may itself hold the text of a placeholder.
PromptKeys == {<<"a">>, <<"b">>, <<"i", "d">>}

PromptValues == {<<>>, <<"v">>, <<"{", "{", "b", "}", "}">>}

TemplatePieces ==
    {<<"x">>, Placeholder(<<"a">>), Placeholder(<<"b">>),
     Placeholder(<<"i", "d">>)}

RECURSIVE Templates(_)
Templates(n) ==
    IF n = 0 THEN {<<>>}
    ELSE Templates(n - 1)
           \cup {t \o piece : t \in Templates(n - 1), piece \in TemplatePieces}

Contexts == {<<>>, <<"c">>}

Schemas == {<<>>, <<(<<"s">>)>>, <<(<<"s">>), (<<"t">>)>>}

\* The key sequences of a row: distinct keys in the order of the dict.
KeyOrders ==
    {ks \in UNION {[1 .. n -> PromptKeys] : n \in 0 .. Cardinality(PromptKeys)} :
        \A i, j \in DOMAIN ks : i # j => ks[i] # ks[j]}

\* compile_out before the compilation has run.
NotCompiled == [done |-> FALSE, prompt |-> <<>>, reordered |-> <<>>]

\* A request to compile: a template, a row (items, and the same items in
\* another order of the keys), a context and a schema.  No batch runs.
PromptInit ==
    /\ \E ks \in KeyOrders :
       \E vals \in [DOMAIN ks -> PromptValues] :
       \E perm \in Permutations(DOMAIN ks) :
          compile_in \in
              [template : Templates(MaxPieces),
               items : {[i \in DOMAIN ks |-> <<ks[i], vals[i]>>]},
               reordered :
                   {[i \in DOMAIN ks |-> <<ks[perm[i]], vals[perm[i]]>>]},
               context : Contexts,
               output_schema : Schemas]
    /\ compile_out = NotCompiled
    /\ env = [GEMINI_API_KEY |-> TRUE, NEXT_PUBLIC_SUPABASE_URL |-> TRUE,
              SUPABASE_URL |-> TRUE, SUPABASE_SERVICE_ROLE_KEY |-> TRUE]
    /\ rows = <<>>
    /\ rows_sized = TRUE
    /\ total_time = NoTime
    /\ pc = "invoked"
    /\ raised = None
    /\ batch = [status |-> "pending", processed_rows |-> 0]
    /\ batch_writes = <<>>
    /\ batch_results = {}
    /\ rowpc = <<>>
    /\ row_id = <<>>
    /\ response = <<>>
    /\ local = <<>>
    /\ inserted = <<>>
    /\ returned = <<>>
    /\ outputs = <<>>
    /\ parallel_error = None
    /\ results = <<>>
    /\ summary = NoSummary
    /\ calls = <<>>

\* Lines 93-107 applied to the row, and to the same row with its keys in the
\* other order.
Compile ==
    /\ ~compile_out.done
    /\ compile_out' =
          [done |-> TRUE,
           prompt |-> CompilePrompt(compile_in.template, compile_in.items,
                                    compile_in.context,
                                    compile_in.output_schema),
           reordered |-> CompilePrompt(compile_in.template,
                                       compile_in.reordered,
                                       compile_in.context,
                                       compile_in.output_schema)]
    /\ UNCHANGED <<compile_in, env, rows, rows_sized, total_time, pc, raised, batch, batch_writes,
                   batch_results, rowvars, parallel_error, results, summary>>

PromptNext == Compile

PromptSpec == PromptInit /\ [][PromptNext]_vars

\* ------------------------------------------------------------------------
\* Properties
\* ------------------------------------------------------------------------

TerminalStatuses == {"completed", "completed_with_errors"}

RowStatuses == {"success", "error"}

\* Rows whose generation call raised.
F == {p \in DOMAIN rows : response[p] = "raise"}

\* The batch_results records written for the row at position p.
RecordsOfRow(p) ==
    {r \in batch_results : r.batch_id = batch_id /\ r.row_index = p - 1}

\* C1: a returned summary has status completed exactly when every input row
\* has a result with status success, and completed_with_errors otherwise.
C1_CompletedIffAllRowsSucceeded ==
    pc = "returned" =>
        /\ summary.status \in TerminalStatuses
        /\ summary.status = "completed" <=>
              \A p \in DOMAIN rows :
                  /\ p \in DOMAIN summary.results
                  /\ summary.results[p].status = "success"

\* C2 as stated: once a dispatched row's invocation has finished, the store
\* holds exactly one batch_results record for that row, with status success
\* or error.
C2_ExactlyOneRecordPerFinishedRow ==
    \A p \in DOMAIN rows :
        rowpc[p] = "done" =>
            /\ Cardinality(RecordsOfRow(p)) = 1
            /\ \A r \in RecordsOfRow(p) : r.status \in RowStatuses

\* C2 amended: once a dispatched row's invocation has returned, it has
\* returned one result with status success or error; the store holds exactly
\* one record for the row, under the row's identifier and with the returned
\* status and output, when the invocation's insert succeeded, and no record
\* for the row otherwise.
C2_OneResultAndRecordIfInsertSucceeded ==
    \A p \in DOMAIN rows :
        rowpc[p] = "done" =>
            /\ returned[p].status \in RowStatuses
            /\ IF inserted[p] = "ok"
               THEN /\ Cardinality(RecordsOfRow(p)) = 1
                    /\ \A r \in RecordsOfRow(p) :
                          /\ r.id = returned[p].id
                          /\ r.status = returned[p].status
                          /\ r.output_data = returned[p].output
                    /\ Cardinality({r \in batch_results :
                                       r.id = returned[p].id}) = 1
               ELSE RecordsOfRow(p) = {}

\* C2 witness: two rows have returned, one with an error result and one with
\* a success result, and both inserts succeeded.
C2_Witness ==
    \E p, q \in DOMAIN rows :
        /\ rowpc[p] = "done" /\ rowpc[q] = "done"
        /\ inserted[p] = "ok" /\ inserted[q] = "ok"
        /\ returned[p].status = "error" /\ returned[q].status = "success"

\* C3: an unexpected failure in one row's processing becomes an error result
\* for that row in the summary and leaves every other row's result in place.
C3_RowFailureStaysInRow ==
    (pc = "returned" /\ parallel_error # "dispatch") =>
        /\ Len(summary.results) = Len(rows)
        /\ \A p \in DOMAIN rows :
              /\ ~rows[p].is_mapping => summary.results[p].status = "error"
              /\ rowpc[p] = "done" => summary.results[p] = returned[p]

\* C4: when only generation calls fail (no row fails before its call), for
\* the rows of F, the summary counts
\* total_rows = N, failed = |F|, successful = N - |F|, and every row outside
\* F has status success.
C4_CountsMatchFailedGenerations ==
    ( /\ pc = "returned" /\ parallel_error = None /\ RowEnvOk(env)
      /\ \A p \in DOMAIN rows : local[p] # ExceptBeforeCall ) =>
        /\ summary.total_rows = Len(rows)
        /\ summary.failed = Cardinality(F)
        /\ summary.successful = Len(rows) - Cardinality(F)
        /\ Len(summary.results) = Len(rows)
        /\ \A p \in DOMAIN rows \ F : summary.results[p].status = "success"

\* C4 witness: a two-row batch has returned with exactly one failed
\* generation call and no other failure before a call.
C4_Witness ==
    /\ pc = "returned" /\ parallel_error = None /\ RowEnvOk(env)
    /\ \A p \in DOMAIN rows : local[p] # ExceptBeforeCall
    /\ Len(rows) = 2
    /\ Cardinality(F) = 1

\* C5: a generation call that returns without usable text gives the row an
\* error result with an empty output.
C5_EmptyResponseIsError ==
    \A p \in DOMAIN rows :
        (rowpc[p] = "done" /\ response[p] = "empty") =>
            /\ returned[p].status = "error"
            /\ returned[p].output = ""

\* C6: every returned result carries the row's id column when the row has
\* one and {batch_id}-row-{index} otherwise, and no two rows of the batch
\* get the same identifier.
C6_IdentifierRuleAndNoCollision ==
    /\ \A p \in DOMAIN rows :
          rowpc[p] = "done" =>
              returned[p].id = IF rows[p].id # Absent THEN rows[p].id
                               ELSE SyntheticId(batch_id, p - 1)
    /\ \A p, q \in DOMAIN rows :
          (p # q /\ rowpc[p] = "done" /\ rowpc[q] = "done") =>
              returned[p].id # returned[q].id

\* C7: the results list of a returned summary is in input order: its entry
\* at position i is the value the invocation of input row i returned.
C7_ResultsInInputOrder ==
    (pc = "returned" /\ parallel_error = None) =>
        /\ Len(summary.results) = Len(rows)
        /\ \A p \in DOMAIN rows : summary.results[p] = returned[p]

\* C7 witness: the second row's invocation finished before the first row's,
\* with a different result, and the summary was returned.
C7_Witness ==
    /\ pc = "returned" /\ parallel_error = None
    /\ Len(rows) = 2
    /\ outputs[1].index = 1
    /\ returned[1] # returned[2]

\* C8: when an identifier is processed a second time and the store is
\* reachable, the table holds exactly one record for the identifier and it
\* carries the outcome of the second processing.
C8_SecondProcessingUpdates ==
    \A p, q \in DOMAIN rows :
        ( /\ p # q
          /\ rowpc[p] = "done" /\ rowpc[q] = "done"
          /\ row_id[p] = row_id[q]
          /\ inserted[p] = "ok"
          /\ inserted[q] = "duplicate key" ) =>
            /\ Cardinality({r \in batch_results : r.id = row_id[q]}) = 1
            /\ \A r \in batch_results :
                  r.id = row_id[q] =>
                      /\ r.status = returned[q].status
                      /\ r.output_data = returned[q].output
                      /\ r.error_message = returned[q].error

\* The last update of batches that succeeded, or pending when none did.
RECURSIVE StoredStatusAfter(_)
StoredStatusAfter(ws) ==
    IF ws = <<>> THEN "pending"
    ELSE IF ws[Len(ws)].ok THEN ws[Len(ws)].status
    ELSE StoredStatusAfter(SubSeq(ws, 1, Len(ws) - 1))

\* C9: the processing write is attempted before any row is dispatched, the
\* terminal write is attempted only after every dispatched row has reached a
\* terminal result, and the stored status only moves forward along
\* pending -> processing -> terminal.
C9_StatusLifecycle ==
    /\ (\E p \in DOMAIN rows : rowpc[p] # "idle") =>
          /\ Len(batch_writes) >= 1
          /\ batch_writes[1].status = "processing"
    /\ (\E k \in DOMAIN batch_writes :
            batch_writes[k].status \in TerminalStatuses) =>
          \A p \in DOMAIN rows : rowpc[p] \in {"idle", "done"}
    /\ \A k \in DOMAIN batch_writes :
          batch_writes[k].status = "processing" => k = 1
    /\ Len(batch_writes) <= 2
    /\ batch.status = StoredStatusAfter(batch_writes)

\* C10: when the parallel dispatch fails the orchestrator returns a summary
\* with an empty results list, and a batch with at least one row is not
\* reported completed with zero failures.
C10_DispatchFailureIsNotCompleted ==
    parallel_error # None =>
        /\ raised = None
        /\ pc = "returned" =>
              /\ summary.results = <<>>
              /\ ~(Len(rows) >= 1 /\ summary.status = "completed"
                                  /\ summary.failed = 0)

\* Rows whose returned result has status st.
RowsReturning(st) ==
    {p \in DOMAIN rows : rowpc[p] = "done" /\ returned[p].status = st}

\* C11: a failed insert leaves the row's status, output and error detail as
\* classified and does not abort the row: the invocation returns the result,
\* and the orchestrator lists and counts it as it does any other result.
C11_InsertFailureKeepsResult ==
    \A p \in DOMAIN rows :
        inserted[p] \in {"store error", "duplicate key"} =>
            /\ rowpc[p] = "done"
            /\ returned[p].id = row_id[p]
            /\ returned[p].status =
                  IF response[p] \in {"text", "empty"} THEN "success"
                  ELSE "error"
            /\ returned[p].output = local[p].output
            /\ returned[p].error = local[p].error_msg
            /\ (pc = "returned" /\ parallel_error = None) =>
                  /\ summary.results[p] = returned[p]
                  /\ summary.successful = Cardinality(RowsReturning("success"))
                  /\ summary.failed = Cardinality(RowsReturning("error"))

\* C11 witness: a summary was returned that counts as successful a row whose
\* insert the store refused.
C11_Witness ==
    /\ pc = "returned" /\ parallel_error = None
    /\ \E p \in DOMAIN rows :
          /\ inserted[p] = "store error"
          /\ returned[p].status = "success"
          /\ summary.results[p].status = "success"
    /\ summary.successful = Len(rows)

\* C12: with the store URL and credential present, and every row invocation
\* ending, the run eventually returns a summary carrying a terminal status.
C12_ConfiguredRunReturnsSummary ==
    ((env.NEXT_PUBLIC_SUPABASE_URL \/ env.SUPABASE_URL)
        /\ env.SUPABASE_SERVICE_ROLE_KEY)
      ~> (pc = "returned" /\ summary.status \in TerminalStatuses)

\* The generation-service key, the store URL or the store credential is
\* missing.
SecretMissing ==
    \/ ~env.GEMINI_API_KEY
    \/ ~(env.NEXT_PUBLIC_SUPABASE_URL \/ env.SUPABASE_URL)
    \/ ~env.SUPABASE_SERVICE_ROLE_KEY

\* The store URL or the store credential is missing.
StoreSecretMissing ==
    \/ ~(env.NEXT_PUBLIC_SUPABASE_URL \/ env.SUPABASE_URL)
    \/ ~env.SUPABASE_SERVICE_ROLE_KEY

\* C13: when a secret is missing no generation call is made for any row:
\* either the orchestrator fails with no row dispatched and no batch update
\* issued, or every dispatched row returns an error result of its own,
\* writing nothing.
C13_NoGenerationWithoutSecrets ==
    SecretMissing =>
        /\ \A p \in DOMAIN rows :
              calls[p].generate = 0 /\ response[p] = None
        /\ IF StoreSecretMissing
           THEN /\ pc \in {"invoked", "raised"}
                /\ pc = "raised" => raised = "ValueError"
                /\ batch_writes = <<>>
                /\ batch.status = "pending"
                /\ \A p \in DOMAIN rows : rowpc[p] = "idle"
           ELSE /\ \A p \in DOMAIN rows :
                      /\ rowpc[p] \in {"idle", "queued", "done"}
                      /\ rowpc[p] = "done" =>
                            /\ returned[p].status = "error"
                            /\ returned[p].output = ""
                            /\ returned[p].error =
                                  "Missing required environment variables"
                            /\ calls[p].insert = 0
                /\ batch_results = {}
                /\ pc = "returned" /\ parallel_error = None =>
                      summary.failed = Len(rows)

\* C13 witness: without the generation-service key a two-row batch has
\* returned a summary in which both rows are errors.
C13_Witness ==
    /\ ~env.GEMINI_API_KEY /\ ~StoreSecretMissing
    /\ pc = "returned" /\ parallel_error = None
    /\ Len(rows) = 2
    /\ summary.failed = 2

\* The items of a row that the claim substitutes: a key other than id with a
\* non-empty value.
SubstitutedItems(items) ==
    {i \in DOMAIN items : items[i][1] # <<"i", "d">> /\ items[i][2] # <<>>}

\* The items whose placeholder starts the text.
ItemsMatchingAt(text, items) ==
    {i \in SubstitutedItems(items) :
        /\ Len(Placeholder(items[i][1])) <= Len(text)
        /\ SubSeq(text, 1, Len(Placeholder(items[i][1])))
              = Placeholder(items[i][1])}

\* The template with every occurrence of a substituted key's placeholder
\* replaced by the key's value, and every other character left as it is.
RECURSIVE ReferenceSubstitution(_, _)
ReferenceSubstitution(template, items) ==
    IF template = <<>> THEN <<>>
    ELSE IF ItemsMatchingAt(template, items) # {}
         THEN LET i == CHOOSE i \in ItemsMatchingAt(template, items) : TRUE
              IN items[i][2]
                   \o ReferenceSubstitution(
                          SubSeq(template,
                                 Len(Placeholder(items[i][1])) + 1,
                                 Len(template)),
                          items)
         ELSE <<template[1]>> \o ReferenceSubstitution(Tail(template), items)

\* The reference prompt of the claim: context line and blank line, the
\* substituted template, blank line and schema line.
ReferencePrompt(template, items, context, output_schema) ==
    (IF context = <<>> THEN <<>>
     ELSE <<"C", "o", "n", "t", "e", "x", "t", ":", " ">> \o context \o <<"\n", "\n">>)
    \o ReferenceSubstitution(template, items)
    \o (IF output_schema = <<>> THEN <<>>
        ELSE <<"\n", "\n">>
               \o <<"E", "x", "p", "e", "c", "t", "e", "d",
                 " ", "o", "u", "t", "p", "u", "t", " ",
                 "f", "o", "r", "m", "a", "t", ":", " ">>
               \o JoinFields(output_schema))

\* C14: the compiled prompt equals the reference prompt.
C14_PromptEqualsReference ==
    compile_out.done =>
        compile_out.prompt =
            ReferencePrompt(compile_in.template, compile_in.items,
                            compile_in.context, compile_in.output_schema)

\* C17: the compiled prompt is the same for any two orders of the row's
\* keys.
C17_PromptIndependentOfKeyOrder ==
    compile_out.done => compile_out.prompt = compile_out.reordered

\* C15: a batch with an empty row list returns a summary with total_rows,
\* successful, failed and avg_time_per_row all 0 and status completed, and
\* the stored status is completed when the terminal write succeeded.
C15_EmptyBatchSummary ==
    (pc = "returned" /\ rows = <<>>) =>
        /\ summary.total_rows = 0
        /\ summary.successful = 0
        /\ summary.failed = 0
        /\ summary.avg_time_per_row = 0
        /\ summary.status = "completed"
        /\ summary.results = <<>>
        /\ batch_writes[Len(batch_writes)].ok => batch.status = "completed"

\* C15 witness: an empty batch that took time has returned and its terminal
\* write succeeded.
C15_Witness ==
    /\ pc = "returned" /\ rows = <<>>
    /\ summary.processing_time_seconds = MaxElapsed
    /\ batch_writes[Len(batch_writes)].ok
    /\ batch.status = "completed"

\* C16 as stated: every invocation with resolved credentials that has ended
\* made exactly one generation call and exactly one insert attempt, and a
\* run that returned issued exactly one processing write and one terminal
\* write.
C16_ExactlyOneCallPerInvocation ==
    /\ \A p \in DOMAIN rows :
          (rowpc[p] \in {"done", "raised"} /\ ~SecretMissing) =>
              calls[p].generate = 1 /\ calls[p].insert = 1
    /\ pc = "returned" =>
          /\ Len(batch_writes) = 2
          /\ batch_writes[1].status = "processing"
          /\ batch_writes[2].status \in TerminalStatuses

\* C16 amended: no invocation makes more than one generation call or more
\* than one insert attempt; an invocation with resolved credentials that
\* returns a result has made exactly one insert attempt, and exactly one
\* generation call unless its try raised before the call, when it has made
\* none; the orchestrator issues at most one processing write and one
\* terminal write, exactly one of each in that order when it returns, and
\* none when it raises before the processing write (ValueError,
\* RuntimeError, TypeError).
C16_NoRetries ==
    /\ \A p \in DOMAIN rows :
          /\ calls[p].generate <= 1
          /\ calls[p].insert <= 1
          /\ (rowpc[p] = "done" /\ ~SecretMissing) =>
                /\ calls[p].insert = 1
                /\ calls[p].generate =
                      IF returned[p].error = "not generated" THEN 0 ELSE 1
    /\ Len(batch_writes) <= 2
    /\ \A k \in DOMAIN batch_writes :
          IF k = 1 THEN batch_writes[k].status = "processing"
          ELSE batch_writes[k].status \in TerminalStatuses
    /\ pc = "returned" => Len(batch_writes) = 2
    /\ (pc = "raised" /\ raised # "FunctionTimeoutError") =>
          batch_writes = <<>>

\* C16 witness: a two-row run has returned in which every generation call
\* raised, every insert was refused and both batch writes failed, each
\* having been attempted once.
C16_Witness ==
    /\ pc = "returned" /\ Len(rows) = 2
    /\ \A p \in DOMAIN rows :
          /\ rowpc[p] = "done"
          /\ response[p] = "raise" /\ inserted[p] = "store error"
          /\ calls[p] = [generate |-> 1, insert |-> 1]
    /\ Len(batch_writes) = 2
    /\ \A k \in DOMAIN batch_writes : ~batch_writes[k].ok

\* C18: a step of a row invocation, or of the store on its behalf, leaves
\* the batch record and the batch
\* writes as they are, never changes or removes a batch_results record, and
\* adds at most one record, under the invocation's own row identifier and
\* row index; the batch record changes only in a step of the orchestrator
\* that issues a status write, to the status written.
C18_RowWritesOnlyItsOwnRecord ==
    [][ /\ rowpc' # rowpc =>
              batch' = batch /\ batch_writes' = batch_writes
        /\ batch' # batch =>
              /\ rowpc' = rowpc
              /\ Len(batch_writes') = Len(batch_writes) + 1
              /\ batch_writes'[Len(batch_writes')].ok
              /\ batch'.status = batch_writes'[Len(batch_writes')].status
        /\ batch_results \subseteq batch_results'
        /\ Cardinality(batch_results' \ batch_results) <= 1
        /\ \A r \in batch_results' \ batch_results :
              \E p \in DOMAIN rows :
                  /\ rowpc[p] = "insert" /\ rowpc'[p] = "stored"
                  /\ \A q \in DOMAIN rows \ {p} : rowpc'[q] = rowpc[q]
                  /\ r.id = row_id[p]
                  /\ r.batch_id = batch_id
                  /\ r.row_index = p - 1
                  /\ \A old \in batch_results : old.id # r.id
      ]_vars

\* C18 witness: two rows with the same identifier and different outcomes
\* have both finished; the table holds the record of the one that inserted
\* first, unchanged by the other, and the batch is still processing.
C18_Witness ==
    /\ batch.status = "processing"
    /\ \E p, q \in DOMAIN rows :
          /\ p # q
          /\ rowpc[p] = "done" /\ rowpc[q] = "done"
          /\ inserted[p] = "ok" /\ inserted[q] = "duplicate key"
          /\ returned[p].status # returned[q].status
          /\ Cardinality(batch_results) = 1
          /\ \A r \in batch_results :
                r.row_index = p - 1 /\ r.status = returned[p].status

\* C19: in every returned summary successful + failed = total_rows and the
\* results list has total_rows entries.
C19_CountsAndResultsCoverRows ==
    pc = "returned" =>
        /\ summary.successful + summary.failed = summary.total_rows
        /\ Len(summary.results) = summary.total_rows

\* C20: after the orchestrator returned, the stored batch has the summary's
\* status and successful count when the terminal write succeeded; when it
\* failed the stored status is processing, or pending if the first write
\* failed too, and processed_rows is untouched, while the summary carries a
\* terminal status.
C20_StoredBatchAgreesWithSummary ==
    pc = "returned" =>
        /\ summary.status \in TerminalStatuses
        /\ IF batch_writes[2].ok
           THEN /\ batch.status = summary.status
                /\ batch.processed_rows = summary.successful
           ELSE /\ batch.status =
                      IF batch_writes[1].ok THEN "processing" ELSE "pending"
                /\ batch.processed_rows = 0

\* C20 witness: a run with one successful and one failed row has returned
\* and its terminal write was stored.
C20_Witness ==
    /\ pc = "returned"
    /\ batch_writes[2].ok
    /\ summary.status = "completed_with_errors"
    /\ summary.successful = 1 /\ summary.failed = 1
    /\ batch = [status |-> "completed_with_errors", processed_rows |-> 1]

====
